---- MODULE Spec2Model ----
(***************************************************************************)
(* Model of rend3's per-frame orchestration:                               *)
(*   - util/acquire.rs : AcquireThread (dedicated surface-acquisition      *)
(*                       thread behind two flume channels)                 *)
(*   - util/output.rs  : OutputFrame (Surface / SurfaceAcquired / View)    *)
(*   - renderer/render.rs : render_loop (instruction drain, readiness,     *)
(*                       culling, pass fan-out, submission, presentation)  *)
(***************************************************************************)
EXTENDS Integers, Sequences, FiniteSets, TLC

(***************************************************************************)
(* Bounds of the model.                                                    *)
(***************************************************************************)
\* number of OutputFrame operations (acquire / present / drop) explored
MaxOps == 3
\* number of images the native surface hands out
MaxImages == 2

\* number of instructions producers enqueue in one run
MaxEnq == 2
\* length of the render list (render_list.passes)
MaxPasses == 2

\* acquire.rs:37  `for _ in 0..10`
AcquireAttempts == 10

VARIABLES
    \* ---- util/acquire.rs ----
    surface_sender,     \* request channel  (Sender<Arc<Surface>> -> Receiver)
    frame_reciever,     \* response channel (Sender<Result<..>> -> Receiver)
    at_alive,           \* the AcquireThread value (both caller-side ends) is not dropped
    th_pc,              \* position of thread_loop
    th_surface,         \* `surface` bound by `while let Ok(surface)`
    th_i,               \* iteration of `for _ in 0..10`
    retrieved_texture,  \* `let mut retrieved_texture`
    next_image,         \* images handed out so far by get_current_texture
    \* observation of the attempt sequence of the request being served
    n_native,           \* native calls made for the request
    first_nt,           \* first non-timeout result of the attempt sequence
    after_nt,           \* native calls made after the first non-timeout result
    \* observation of the request/response traffic of the thread
    th_req,             \* number of requests thread_loop has received so far
    sent_log,           \* every send of thread_loop: the request served, delivered or not
    resp_for,           \* for each queued response, the request it answers
    \* ---- util/output.rs ----
    frame,              \* the OutputFrame value
    of_pc,              \* "idle" or "awaiting" (acquire future suspended in recv_async)
    acquire_ret,        \* what the last completed OutputFrame::acquire returned
    last_op,            \* the last OutputFrame operation invoked
    n_ops,              \* number of OutputFrame operations invoked
    n_requests,         \* number of requests sent to the acquisition service
    presented,          \* images handed to the surface by SurfaceTexture::present
    discarded,          \* images dropped without being presented
    \* ---- renderer/render.rs ----
    producer,           \* renderer.instructions.producer
    consumer,           \* renderer.instructions.consumer
    r_pc,               \* position of the frame driver in render_loop
    mode,               \* renderer.mode
    passes,             \* render_list.passes (run-rate tag of each pass)
    pools,              \* the managers and global_resources' scene fields
    options,            \* renderer.options
    new_options,        \* `let mut new_options`
    opt_local,          \* `let options` (render.rs:50, rebound at render.rs:257)
    encoder,            \* the primary encoder's recorded commands
    object_count,       \* `let object_count`
    recompile,          \* state of recompile_future
    light_queue,        \* lights the `for light in ...values()` loop has yet to visit
    cull_data,          \* view whose culling was prepared and run last
    command_buffer_futures, \* the FuturesOrdered of recording tasks
    command_buffers,    \* `let mut command_buffers`
    submitted,          \* the list handed to queue.submit in this frame
    r_frame,            \* `let frame` (render.rs:362)
    guards,             \* the RwLock guards the frame driver holds
    recall,             \* the buffer recall tasks this frame spawned (render.rs:461-469)
    statistics,         \* the value render_loop's future resolved to
    \* observation
    enq_log,            \* every instruction enqueued so far, in order
    applied,            \* ids of the instructions applied so far, in order
    batch,              \* ids of the batch the consumer received at the last swap
    start_state,        \* pools at the start of the current drain
    light_order,        \* the lights visited by this frame's light loop, in order
    trace               \* steps of the current frame, in execution order

acq_vars == <<surface_sender, frame_reciever, at_alive, th_pc, th_surface, th_i,
              retrieved_texture, next_image, n_native, first_nt, after_nt,
              th_req, sent_log, resp_for>>
out_vars == <<frame, of_pc, acquire_ret, last_op, n_ops, n_requests, presented, discarded>>
render_vars == <<producer, consumer, r_pc, mode, passes, pools, options, new_options,
                 opt_local, encoder, object_count, recompile, light_queue, cull_data,
                 command_buffer_futures, command_buffers, submitted, r_frame,
                 guards, recall, statistics,
                 enq_log, applied, batch, start_state, light_order, trace>>
vars == <<acq_vars, out_vars, render_vars>>

(***************************************************************************)
(* Values.                                                                 *)
(***************************************************************************)
None == [kind |-> "None", img |-> 0]
Ok(img) == [kind |-> "Ok", img |-> img]
Err(e) == [kind |-> e, img |-> 0]

\* wgpu::SurfaceError variants other than Timeout
FatalErrors == {"Lost", "OutOfMemory"}

Surfaces == {"s1"}

NoView == [of |-> "none", id |-> 0]
ExternalView == [of |-> "external", id |-> 0]
\* surface_tex.texture.create_view(&TextureViewDescriptor::default())
create_view(img) == [of |-> "image", id |-> img]

\* ---- OutputFrame variants (output.rs:6-18) ----
Surface(s) == [tag |-> "Surface", surface |-> s, view |-> NoView, surface_tex |-> 0]
SurfaceAcquired(v, img) == [tag |-> "SurfaceAcquired", surface |-> "-", view |-> v, surface_tex |-> img]
View(v) == [tag |-> "View", surface |-> "-", view |-> v, surface_tex |-> 0]
\* the value after it was moved into present(self) / after it went out of scope
Moved == [tag |-> "Moved", surface |-> "-", view |-> NoView, surface_tex |-> 0]
Dropped == [tag |-> "Dropped", surface |-> "-", view |-> NoView, surface_tex |-> 0]

Live(f) == f.tag \in {"Surface", "SurfaceAcquired", "View"}

(***************************************************************************)
(* util/acquire.rs : thread_loop                                           *)
(***************************************************************************)
\* outcomes surface.get_current_texture() can produce
NativeOutcomes ==
    {Err("Timeout")} \cup {Err(e) : e \in FatalErrors}
      \cup (IF next_image < MaxImages THEN {Ok(next_image + 1)} ELSE {})

\* acquire.rs:35-36  `while let Ok(surface) = surface_reciever.recv()`
ThreadRecv ==
    /\ th_pc = "recv"
    /\ surface_sender # <<>>
    /\ th_surface' = Head(surface_sender)
    /\ surface_sender' = Tail(surface_sender)
    /\ retrieved_texture' = None
    /\ th_i' = 0
    /\ th_pc' = "attempt"
    /\ n_native' = 0
    /\ first_nt' = None
    /\ after_nt' = 0
    /\ th_req' = th_req + 1
    /\ UNCHANGED <<frame_reciever, at_alive, next_image, sent_log, resp_for>>
    /\ UNCHANGED <<out_vars, render_vars>>

\* acquire.rs:35  recv() fails: channel empty and every sender dropped
ThreadRecvDisconnected ==
    /\ th_pc = "recv"
    /\ surface_sender = <<>>
    /\ ~at_alive
    /\ th_pc' = "terminated"
    /\ UNCHANGED <<surface_sender, frame_reciever, at_alive, th_surface, th_i,
                   retrieved_texture, next_image, n_native, first_nt, after_nt,
                   th_req, sent_log, resp_for>>
    /\ UNCHANGED <<out_vars, render_vars>>

\* variant of MatchAttempt in which a successful attempt does not leave the loop
MatchAttempt_NoBreak(r, retrieved) ==
    CASE r.kind = "Timeout" -> <<retrieved, FALSE>>
      [] OTHER -> <<r, FALSE>>

\* acquire.rs:39-46  the match on one native result: <<retrieved_texture', break>>
MatchAttempt(r, retrieved) ==
    CASE r.kind = "Ok" -> <<r, TRUE>>
      [] r.kind = "Timeout" -> <<retrieved, FALSE>>
      [] OTHER -> <<r, FALSE>>

\* acquire.rs:37-47  one iteration of `for _ in 0..10`
ThreadAttempt ==
    /\ th_pc = "attempt"
    /\ th_i < AcquireAttempts
    /\ \E r \in NativeOutcomes :
         LET m == MatchAttempt(r, retrieved_texture) IN
         /\ retrieved_texture' = m[1]
         /\ th_i' = th_i + 1
         /\ th_pc' = IF m[2] \/ th_i + 1 = AcquireAttempts THEN "send" ELSE "attempt"
         /\ next_image' = IF r.kind = "Ok" THEN r.img ELSE next_image
         /\ n_native' = n_native + 1
         /\ after_nt' = IF first_nt # None THEN after_nt + 1 ELSE after_nt
         /\ first_nt' = IF first_nt = None /\ r.kind # "Timeout" THEN r ELSE first_nt
    /\ UNCHANGED <<surface_sender, frame_reciever, at_alive, th_surface,
                   th_req, sent_log, resp_for>>
    /\ UNCHANGED <<out_vars, render_vars>>

\* acquire.rs:49  retrieved_texture.unwrap_or(Err(SurfaceError::Timeout))
unwrap_or_timeout(retrieved) == IF retrieved = None THEN Err("Timeout") ELSE retrieved

\* variant of ThreadSend that keeps serving after an undeliverable response
ThreadSend_NoBreak ==
    /\ th_pc = "send"
    /\ LET tex == unwrap_or_timeout(retrieved_texture) IN
       /\ frame_reciever' = IF at_alive THEN Append(frame_reciever, tex) ELSE frame_reciever
       /\ resp_for' = IF at_alive THEN Append(resp_for, th_req) ELSE resp_for
       /\ th_pc' = "recv"
    /\ sent_log' = Append(sent_log, [req |-> th_req, delivered |-> at_alive])
    /\ th_surface' = "-"
    /\ th_i' = 0
    /\ retrieved_texture' = None
    /\ n_native' = 0
    /\ first_nt' = None
    /\ after_nt' = 0
    /\ UNCHANGED <<surface_sender, at_alive, next_image, th_req>>
    /\ UNCHANGED <<out_vars, render_vars>>

\* acquire.rs:49-55  send the response; stop when it cannot be delivered.
\* The locals of the iteration (surface, retrieved_texture) end here.
ThreadSend ==
    /\ th_pc = "send"
    /\ LET tex == unwrap_or_timeout(retrieved_texture) IN
       IF at_alive
         THEN /\ frame_reciever' = Append(frame_reciever, tex)
              /\ resp_for' = Append(resp_for, th_req)
              /\ th_pc' = "recv"
         ELSE /\ th_pc' = "terminated"
              /\ UNCHANGED <<frame_reciever, resp_for>>
    /\ sent_log' = Append(sent_log, [req |-> th_req, delivered |-> at_alive])
    /\ th_surface' = "-"
    /\ th_i' = 0
    /\ retrieved_texture' = None
    /\ n_native' = 0
    /\ first_nt' = None
    /\ after_nt' = 0
    /\ UNCHANGED <<surface_sender, at_alive, next_image, th_req>>
    /\ UNCHANGED <<out_vars, render_vars>>

\* the owner drops the AcquireThread: both caller-side channel ends go away
\* (acquire.rs:6-9; possible only while no acquire future borrows it)
DropAcquireThread ==
    /\ at_alive
    /\ of_pc = "idle"
    /\ at_alive' = FALSE
    /\ frame_reciever' = <<>>
    /\ resp_for' = <<>>
    /\ UNCHANGED <<surface_sender, th_pc, th_surface, th_i, retrieved_texture,
                   next_image, n_native, first_nt, after_nt, th_req, sent_log>>
    /\ UNCHANGED <<out_vars, render_vars>>

(***************************************************************************)
(* util/output.rs : OutputFrame                                            *)
(***************************************************************************)
\* variant of NeedsAcquire that only spares the external view
NeedsAcquire_NotView(f) == f.tag # "View"

\* output.rs:22  `if let Self::Surface { surface } = self`
NeedsAcquire(f) == f.tag = "Surface"

\* variant of as_view that yields a view only for an acquired surface
as_view_AcquiredOnly(f) ==
    CASE f.tag = "SurfaceAcquired" -> f.view
      [] OTHER -> NoView

\* output.rs:33-39  as_view
as_view(f) ==
    CASE f.tag = "Surface" -> NoView
      [] f.tag = "SurfaceAcquired" -> f.view
      [] f.tag = "View" -> f.view
      [] OTHER -> NoView

\* output.rs:21-23 with acquire.rs:24-25: the call up to its suspension point
OutputFrame_acquire ==
    /\ of_pc = "idle"
    /\ Live(frame)
    /\ n_ops < MaxOps
    /\ n_ops' = n_ops + 1
    /\ last_op' = "acquire"
    /\ IF NeedsAcquire(frame)
         THEN /\ at_alive
              /\ surface_sender' = Append(surface_sender, frame.surface)
              /\ n_requests' = n_requests + 1
              /\ of_pc' = "awaiting"
              /\ acquire_ret' = "pending"
         ELSE /\ acquire_ret' = "Ok"
              /\ UNCHANGED <<surface_sender, n_requests, of_pc>>
    /\ UNCHANGED <<frame, presented, discarded>>
    /\ UNCHANGED <<frame_reciever, at_alive, th_pc, th_surface, th_i, retrieved_texture,
                   next_image, n_native, first_nt, after_nt, th_req, sent_log, resp_for>>
    /\ UNCHANGED render_vars

\* variant of AcquireOutcome that swallows the acquisition error
AcquireOutcome_SwallowErr(f, r) ==
    IF r.kind = "Ok"
      THEN <<SurfaceAcquired(create_view(r.img), r.img), "Ok">>
      ELSE <<f, "Ok">>

\* output.rs:23-30: what the target becomes and what acquire returns for response r
AcquireOutcome(f, r) ==
    IF r.kind = "Ok"
      THEN <<SurfaceAcquired(create_view(r.img), r.img), "Ok">>
      ELSE <<f, r.kind>>

\* acquire.rs:26 with output.rs:23-30: recv_async resolves and acquire completes
OutputFrame_acquire_resume ==
    /\ of_pc = "awaiting"
    /\ frame_reciever # <<>>
    /\ LET o == AcquireOutcome(frame, Head(frame_reciever)) IN
         /\ frame' = o[1]
         /\ acquire_ret' = o[2]
    /\ frame_reciever' = Tail(frame_reciever)
    /\ resp_for' = Tail(resp_for)
    /\ of_pc' = "idle"
    /\ last_op' = "acquire_resume"
    /\ UNCHANGED <<n_ops, n_requests, presented, discarded>>
    /\ UNCHANGED <<surface_sender, at_alive, th_pc, th_surface, th_i, retrieved_texture,
                   next_image, n_native, first_nt, after_nt, th_req, sent_log>>
    /\ UNCHANGED render_vars

\* the acquire future is dropped while suspended in recv_async (acquire.rs:26)
OutputFrame_acquire_cancel ==
    /\ of_pc = "awaiting"
    /\ of_pc' = "idle"
    /\ acquire_ret' = "cancelled"
    /\ last_op' = "acquire_cancel"
    /\ UNCHANGED <<frame, n_ops, n_requests, presented, discarded>>
    /\ UNCHANGED <<acq_vars, render_vars>>

\* variant of PresentedBy that presents whatever the target holds
PresentedBy_AnyVariant(f) == <<f.surface_tex>>

\* output.rs:41-48: the images present(self) hands to the surface
PresentedBy(f) == IF f.tag = "SurfaceAcquired" THEN <<f.surface_tex>> ELSE <<>>

\* output.rs:41-48  present(self)
OutputFrame_present ==
    /\ of_pc = "idle"
    /\ Live(frame)
    /\ n_ops < MaxOps
    /\ n_ops' = n_ops + 1
    /\ last_op' = "present"
    /\ presented' = presented \o PresentedBy(frame)
    /\ frame' = Moved
    /\ UNCHANGED <<of_pc, acquire_ret, n_requests, discarded>>
    /\ UNCHANGED <<acq_vars, render_vars>>

\* output.rs:6-18: the value goes out of scope; OutputFrame has no Drop impl,
\* its fields are dropped and an owned SurfaceTexture is discarded
OutputFrame_drop ==
    /\ of_pc = "idle"
    /\ Live(frame)
    /\ n_ops < MaxOps
    /\ n_ops' = n_ops + 1
    /\ last_op' = "drop"
    /\ discarded' = IF frame.tag = "SurfaceAcquired"
                      THEN discarded \cup {frame.surface_tex} ELSE discarded
    /\ frame' = Dropped
    /\ UNCHANGED <<of_pc, acquire_ret, n_requests, presented>>
    /\ UNCHANGED <<acq_vars, render_vars>>

\* the caller builds the next frame's output target (output.rs:6-18)
OutputFrame_new ==
    /\ ~Live(frame)
    /\ n_ops < MaxOps
    /\ \E f \in {Surface(s) : s \in Surfaces} \cup {View(ExternalView)} : frame' = f
    /\ acquire_ret' = "none"
    /\ last_op' = "new"
    /\ UNCHANGED <<of_pc, n_ops, n_requests, presented, discarded>>
    /\ UNCHANGED <<acq_vars, render_vars>>

(***************************************************************************)
(* renderer/render.rs : render_loop                                        *)
(***************************************************************************)
Handles == {1}
LightHandles == {1, 2}
CameraView == 0

\* RendererOptions: the fields render_loop reads (aspect_ratio(), ambient)
NoOptions == [aspect |-> 0, ambient |-> 0]
OptionValues == {[aspect |-> 1, ambient |-> 1], [aspect |-> 2, ambient |-> 2]}
InitialOptions == [aspect |-> 1, ambient |-> 1]
aspect_ratio(o) == o.aspect

NoLight == [inner |-> 0, camera |-> 0]
Absent == 0

Instr(op, h, v) == [op |-> op, handle |-> h, val |-> v]

\* instruction.rs is consumed through the match of render.rs:53-189; `val`
\* stands for the payload (for textures: mip_levels, 0 or 1)
AllInstructions ==
    {Instr("AddMesh", h, 1) : h \in Handles}
      \cup {Instr("RemoveMesh", h, 0) : h \in Handles}
      \cup {Instr("AddTexture2D", h, m) : h \in Handles, m \in {0, 1}}
      \cup {Instr("RemoveTexture2D", h, 0) : h \in Handles}
      \cup {Instr("AddTextureCube", h, m) : h \in Handles, m \in {0, 1}}
      \cup {Instr("RemoveTextureCube", h, 0) : h \in Handles}
      \cup {Instr("AddMaterial", h, 1) : h \in Handles}
      \cup {Instr("ChangeMaterial", h, 2) : h \in Handles}
      \cup {Instr("RemoveMaterial", h, 0) : h \in Handles}
      \cup {Instr("AddObject", h, 1) : h \in Handles}
      \cup {Instr("SetObjectTransform", h, 2) : h \in Handles}
      \cup {Instr("RemoveObject", h, 0) : h \in Handles}
      \cup {Instr("AddDirectionalLight", h, 1) : h \in LightHandles}
      \cup {Instr("ChangeDirectionalLight", h, d) : h \in LightHandles, d \in {0, 2}}
      \cup {Instr("RemoveDirectionalLight", h, 0) : h \in LightHandles}
      \cup {Instr("SetOptions", 0, o) : o \in OptionValues}
      \cup {Instr("SetCameraData", 0, d) : d \in {1}}
      \cup {Instr("SetBackgroundTexture", h, 0) : h \in Handles}
      \cup {Instr("ClearBackgroundTexture", 0, 0)}

\* the instructions that decide the views of a frame and their uniforms: the
\* lights, and a SetOptions that changes the options
ViewInstructions ==
    {i \in AllInstructions :
        \/ i.op \in {"AddDirectionalLight", "RemoveDirectionalLight"}
        \/ i.op = "SetOptions" /\ i.val # InitialOptions}

PoolOf(op) ==
    CASE op \in {"AddMesh", "RemoveMesh"} -> "mesh"
      [] op \in {"AddTexture2D", "RemoveTexture2D"} -> "tex2d"
      [] op \in {"AddTextureCube", "RemoveTextureCube", "SetBackgroundTexture"} -> "texcube"
      [] op \in {"AddMaterial", "ChangeMaterial", "RemoveMaterial"} -> "material"
      [] op \in {"AddObject", "SetObjectTransform", "RemoveObject"} -> "object"
      [] op \in {"AddDirectionalLight", "ChangeDirectionalLight",
                 "RemoveDirectionalLight"} -> "light"
      [] OTHER -> "global"

AddOps == {"AddMesh", "AddTexture2D", "AddTextureCube", "AddMaterial", "AddObject",
           "AddDirectionalLight"}
RemoveOps == {"RemoveMesh", "RemoveTexture2D", "RemoveTextureCube", "RemoveMaterial",
              "RemoveObject", "RemoveDirectionalLight"}

\* whether the handle of a pool is live after the instructions of log[1..n]:
\* handles are allocated by the add call and released by the remove call
RECURSIVE Allocated(_, _, _, _)
Allocated(log, n, pool, h) ==
    IF n = 0 THEN FALSE
    ELSE LET i == log[n].instr IN
         IF PoolOf(i.op) = pool /\ i.handle = h /\ i.op \in AddOps THEN TRUE
         ELSE IF PoolOf(i.op) = pool /\ i.handle = h /\ i.op \in RemoveOps THEN FALSE
         ELSE Allocated(log, n - 1, pool, h)

\* the producers' handle discipline: add a fresh handle, use a live one
WellFormed(log, i) ==
    CASE i.op \in AddOps -> ~Allocated(log, Len(log), PoolOf(i.op), i.handle)
      [] PoolOf(i.op) = "global" -> TRUE
      [] OTHER -> Allocated(log, Len(log), PoolOf(i.op), i.handle)

Ev(e, a, b) == [e |-> e, a |-> a, b |-> b]
Ids(q) == [k \in 1..Len(q) |-> q[k].id]
RemoveAt(q, i) == [k \in 1..(Len(q) - 1) |-> IF k < i THEN q[k] ELSE q[k + 1]]

EmptyPools ==
    [mesh |-> [h \in Handles |-> Absent],
     tex2d |-> [h \in Handles |-> Absent],
     texcube |-> [h \in Handles |-> Absent],
     material |-> [h \in Handles |-> Absent],
     object |-> [h \in Handles |-> Absent],
     light |-> [h \in LightHandles |-> NoLight],
     camera |-> [data |-> 0, aspect |-> aspect_ratio(InitialOptions)],
     background |-> Absent]

\* producers append to the pending batch (Renderer's add_*/remove_*/set_* calls)
Enqueue(dom) ==
    /\ r_pc # "panicked"
    /\ Len(enq_log) < MaxEnq
    /\ \E i \in dom :
         /\ WellFormed(enq_log, i)
         /\ LET cmd == [id |-> Len(enq_log) + 1, instr |-> i] IN
              /\ producer' = Append(producer, cmd)
              /\ enq_log' = Append(enq_log, cmd)
    /\ UNCHANGED <<consumer, r_pc, mode, passes, pools, options, new_options, opt_local,
                   encoder, object_count, recompile, light_queue, cull_data,
                   command_buffer_futures, command_buffers, submitted, r_frame,
                   applied, batch, start_state, light_order, trace>>
    /\ UNCHANGED <<guards, recall, statistics>>
    /\ UNCHANGED <<acq_vars, out_vars>>

\* renderer.instructions.swap(): exchange the pending batch with the consumer's
swap(p, c) == <<c, p>>

\* render.rs:22-29  the synchronous part of render_loop
render_loop_call ==
    /\ r_pc = "idle"
    /\ LET sw == swap(producer, consumer) IN
         /\ producer' = sw[1]
         /\ consumer' = sw[2]
         /\ batch' = Ids(sw[2])
    /\ trace' = <<Ev("swap", 0, 0)>>
    /\ r_pc' = "begin"
    /\ UNCHANGED <<mode, passes, pools, options, new_options, opt_local, encoder,
                   object_count, recompile, light_queue, cull_data,
                   command_buffer_futures, command_buffers, submitted, r_frame,
                   enq_log, applied, start_state, light_order>>
    /\ statistics' = "none"
    /\ recall' = "none"
    /\ UNCHANGED guards
    /\ UNCHANGED <<acq_vars, out_vars>>

\* render.rs:43-50  the RwLocks of the renderer the frame driver takes
PoolLocks == {"mesh_manager", "texture_manager_2d", "texture_manager_cube",
              "material_manager", "object_manager", "directional_light_manager"}

Locks == PoolLocks \cup {"global_resources", "options"}

NoGuards == [l \in Locks |-> "none"]

\* render.rs:43-50  write guards on the pools and global_resources, read on options
FrameStartGuards == [l \in Locks |-> IF l = "options" THEN "read" ELSE "write"]

\* render.rs:271-273  the guards taken again, shared, for culling and recording
ReadLocked == {"global_resources", "object_manager", "directional_light_manager"}

\* render.rs:33-50  consumer lock, primary encoder, write guards, options read guard
BeginFrame ==
    /\ r_pc = "begin"
    /\ encoder' = <<>>
    /\ new_options' = NoOptions
    /\ opt_local' = options
    /\ start_state' = [pools |-> pools, new_options |-> NoOptions]
    /\ command_buffer_futures' = <<>>
    /\ command_buffers' = <<>>
    /\ submitted' = <<>>
    /\ r_frame' = "none"
    /\ light_order' = <<>>
    /\ trace' = Append(trace, Ev("lock_write", 0, 0))
    /\ r_pc' = "drain"
    /\ UNCHANGED <<producer, consumer, mode, passes, pools, options, object_count,
                   recompile, light_queue, cull_data, enq_log, applied, batch>>
    /\ guards' = FrameStartGuards
    /\ UNCHANGED <<recall, statistics>>
    /\ UNCHANGED <<acq_vars, out_vars>>

\* variant of Panics with the two asserts removed
Panics_Never(i) == FALSE

\* render.rs:67, 99  assert!(texture.mip_levels > 0, ..)
Panics(i) == i.op \in {"AddTexture2D", "AddTextureCube"} /\ i.val = 0

\* variant of StageOptions that keeps the first options staged in the batch
StageOptions_KeepFirst(staged, o) == IF staged = NoOptions THEN o ELSE staged

\* render.rs:179  `new_options = Some(options)`: the staged value is overwritten
StageOptions(staged, o) == o

\* variant of ApplyInstruction whose cube-texture arm fills the 2D texture pool
ApplyInstruction_WrongPool(st, i, opts) ==
    LET fill(pool) == [st EXCEPT !.pools[pool][i.handle] = i.val]
        remove(pool) == [st EXCEPT !.pools[pool][i.handle] = Absent]
    IN
    CASE i.op = "AddMesh" -> fill("mesh")
      [] i.op = "RemoveMesh" -> remove("mesh")
      [] i.op = "AddTexture2D" -> fill("tex2d")
      [] i.op = "RemoveTexture2D" -> remove("tex2d")
      [] i.op = "AddTextureCube" -> fill("tex2d")
      [] i.op = "RemoveTextureCube" -> remove("texcube")
      [] i.op = "AddMaterial" -> fill("material")
      [] i.op = "ChangeMaterial" -> fill("material")
      [] i.op = "RemoveMaterial" -> remove("material")
      [] i.op = "AddObject" -> fill("object")
      [] i.op = "SetObjectTransform" -> fill("object")
      [] i.op = "RemoveObject" -> remove("object")
      [] i.op = "AddDirectionalLight" ->
            [st EXCEPT !.pools.light[i.handle] = [inner |-> i.val, camera |-> i.val]]
      [] i.op = "ChangeDirectionalLight" ->
            [st EXCEPT !.pools.light[i.handle] =
                [inner |-> 2,
                 camera |-> IF i.val # 0 THEN i.val ELSE @.camera]]
      [] i.op = "RemoveDirectionalLight" ->
            [st EXCEPT !.pools.light[i.handle] = NoLight]
      [] i.op = "SetOptions" -> [st EXCEPT !.new_options = i.val]
      [] i.op = "SetCameraData" ->
            [st EXCEPT !.pools.camera = [data |-> i.val, aspect |-> aspect_ratio(opts)]]
      [] i.op = "SetBackgroundTexture" -> [st EXCEPT !.pools.background = i.handle]
      [] i.op = "ClearBackgroundTexture" -> [st EXCEPT !.pools.background = Absent]

\* render.rs:53-189  one arm of the match: the mutation of one instruction on
\* st = [pools, new_options]; opts is the options read guard of render.rs:50
ApplyInstruction(st, i, opts) ==
    LET fill(pool) == [st EXCEPT !.pools[pool][i.handle] = i.val]
        remove(pool) == [st EXCEPT !.pools[pool][i.handle] = Absent]
    IN
    CASE i.op = "AddMesh" -> fill("mesh")
      [] i.op = "RemoveMesh" -> remove("mesh")
      [] i.op = "AddTexture2D" -> fill("tex2d")
      [] i.op = "RemoveTexture2D" -> remove("tex2d")
      [] i.op = "AddTextureCube" -> fill("texcube")
      [] i.op = "RemoveTextureCube" -> remove("texcube")
      [] i.op = "AddMaterial" -> fill("material")
      [] i.op = "ChangeMaterial" -> fill("material")
      [] i.op = "RemoveMaterial" -> remove("material")
      [] i.op = "AddObject" -> fill("object")
      [] i.op = "SetObjectTransform" -> fill("object")
      [] i.op = "RemoveObject" -> remove("object")
      [] i.op = "AddDirectionalLight" ->
            [st EXCEPT !.pools.light[i.handle] = [inner |-> i.val, camera |-> i.val]]
      [] i.op = "ChangeDirectionalLight" ->
            [st EXCEPT !.pools.light[i.handle] =
                [inner |-> 2,
                 camera |-> IF i.val # 0 THEN i.val ELSE @.camera]]
      [] i.op = "RemoveDirectionalLight" ->
            [st EXCEPT !.pools.light[i.handle] = NoLight]
      [] i.op = "SetOptions" -> [st EXCEPT !.new_options = StageOptions(@, i.val)]
      [] i.op = "SetCameraData" ->
            [st EXCEPT !.pools.camera = [data |-> i.val, aspect |-> aspect_ratio(opts)]]
      [] i.op = "SetBackgroundTexture" -> [st EXCEPT !.pools.background = i.handle]
      [] i.op = "ClearBackgroundTexture" -> [st EXCEPT !.pools.background = Absent]

\* render.rs:55  mesh_manager.fill records the upload into the primary encoder
RecordUpload(enc, i) ==
    IF i.op = "AddMesh" THEN Append(enc, Ev("upload_mesh", i.handle, 0)) ELSE enc

\* variant of NextCommand that takes the newest instruction first
NextCommand_Newest(c) == Len(c)

\* render.rs:52  `instructions.drain(..)` yields from the front
NextCommand(c) == 1

\* variant of DrainFinished that leaves the loop with one instruction pending
DrainFinished_Early(c) == Len(c) <= 1

\* render.rs:52  the for loop ends when the drain is exhausted
DrainFinished(c) == c = <<>>

\* render.rs:52-190  one iteration of the drain loop; a failed assert unwinds,
\* and dropping the Drain discards what it had not yielded
DrainStep ==
    /\ r_pc = "drain"
    /\ ~DrainFinished(consumer)
    /\ LET k == NextCommand(consumer)
           cmd == consumer[k]
           st == ApplyInstruction([pools |-> pools, new_options |-> new_options],
                                  cmd.instr, opt_local)
       IN
       IF Panics(cmd.instr)
         THEN /\ r_pc' = "panicked"
              /\ consumer' = <<>>
              /\ trace' = Append(trace, Ev("panic", cmd.id, 0))
              /\ guards' = NoGuards
              /\ UNCHANGED <<pools, new_options, encoder, applied>>
         ELSE /\ pools' = st.pools
              /\ new_options' = st.new_options
              /\ encoder' = RecordUpload(encoder, cmd.instr)
              /\ applied' = Append(applied, cmd.id)
              /\ consumer' = RemoveAt(consumer, k)
              /\ trace' = Append(trace, Ev("apply", cmd.id, 0))
              /\ UNCHANGED <<r_pc, guards>>
    /\ UNCHANGED <<producer, mode, passes, options, opt_local, object_count, recompile,
                   light_queue, cull_data, command_buffer_futures, command_buffers,
                   submitted, r_frame, enq_log, batch, start_state, light_order>>
    /\ UNCHANGED <<recall, statistics>>
    /\ UNCHANGED <<acq_vars, out_vars>>

\* render.rs:206  object_manager.ready returns the number of objects
ObjectCount(p) == Cardinality({h \in Handles : p.object[h] # Absent})

\* variant of StartsRecompile that ignores the renderer mode
StartsRecompile_AnyMode(m) == TRUE

\* render.rs:195  `if renderer.mode == RendererMode::GPUPowered`
StartsRecompile(m) == m = "GPUPowered"

\* render.rs:192-207  readiness of the pools; the recompilation is started
ReadyResources ==
    /\ r_pc = "drain"
    /\ DrainFinished(consumer)
    /\ object_count' = ObjectCount(pools)
    /\ recompile' = IF StartsRecompile(mode) THEN "running" ELSE "none"
    /\ trace' = trace \o <<Ev("texture_2d_ready", 0, 0), Ev("texture_cube_ready", 0, 0)>>
                      \o (IF StartsRecompile(mode)
                            THEN <<Ev("recompile_start", 0, 0)>> ELSE <<>>)
                      \o <<Ev("material_ready", 0, 0), Ev("object_ready", 0, 0),
                           Ev("light_ready", 0, 0)>>
    /\ r_pc' = "bind"
    /\ UNCHANGED <<producer, consumer, mode, passes, pools, options, new_options,
                   opt_local, encoder, light_queue, cull_data, command_buffer_futures,
                   command_buffers, submitted, r_frame, enq_log, applied, batch,
                   start_state, light_order>>
    /\ UNCHANGED <<guards, recall, statistics>>
    /\ UNCHANGED <<acq_vars, out_vars>>

\* variant of DropPoolGuards whose tuple lacks mesh_manager
DropPoolGuards_KeepMesh(g) ==
    [l \in Locks |-> IF l \in {"global_resources", "mesh_manager"} THEN g[l] ELSE "none"]

\* render.rs:245-253  drop((options, mesh_manager, .., directional_light_manager))
DropPoolGuards(g) == [l \in Locks |-> IF l = "global_resources" THEN g[l] ELSE "none"]

\* render.rs:209-253  the frame's bind groups; the write guards are dropped
BuildBindGroups ==
    /\ r_pc = "bind"
    /\ trace' = trace \o <<Ev("bind_groups", 0, 0), Ev("drop_write", 0, 0)>>
    /\ r_pc' = "options"
    /\ UNCHANGED <<producer, consumer, mode, passes, pools, options, new_options,
                   opt_local, encoder, object_count, recompile, light_queue, cull_data,
                   command_buffer_futures, command_buffers, submitted, r_frame,
                   enq_log, applied, batch, start_state, light_order>>
    /\ guards' = DropPoolGuards(guards)
    /\ UNCHANGED <<recall, statistics>>
    /\ UNCHANGED <<acq_vars, out_vars>>

\* variant of UpdateOptions that forgets the staged options
UpdateOptions_Discard ==
    /\ r_pc = "options"
    /\ opt_local' = options
    /\ trace' = trace \o <<Ev("read_options", 0, 0), Ev("drop_global", 0, 0)>>
    /\ guards' = [guards EXCEPT !["global_resources"] = "none"]
    /\ r_pc' = "recompile"
    /\ UNCHANGED <<producer, consumer, mode, passes, pools, options, new_options,
                   encoder, object_count, recompile, light_queue, cull_data,
                   command_buffer_futures, command_buffers, submitted, r_frame,
                   enq_log, applied, batch, start_state, light_order>>
    /\ UNCHANGED <<recall, statistics>>
    /\ UNCHANGED <<acq_vars, out_vars>>

\* global_resources.update(device, surface, &mut options, new_opt): the options
\* are replaced (the swap and pipeline resources are resized to them); the scene
\* fields of global_resources are left as the drain set them
global_resources_update(p, old_opt, new_opt) == [pools |-> p, options |-> new_opt]

\* render.rs:257-265  the staged options are applied; global_resources is released
UpdateOptions ==
    /\ r_pc = "options"
    /\ IF new_options # NoOptions
         THEN LET u == global_resources_update(pools, options, new_options) IN
              /\ options' = u.options
              /\ opt_local' = u.options
              /\ pools' = u.pools
              /\ trace' = trace \o <<Ev("update_options", 0, 0), Ev("drop_global", 0, 0)>>
         ELSE /\ opt_local' = options
              /\ trace' = trace \o <<Ev("read_options", 0, 0), Ev("drop_global", 0, 0)>>
              /\ UNCHANGED <<options, pools>>
    /\ r_pc' = "recompile"
    /\ UNCHANGED <<producer, consumer, mode, passes, new_options, encoder,
                   object_count, recompile, light_queue, cull_data,
                   command_buffer_futures, command_buffers, submitted, r_frame,
                   enq_log, applied, batch, start_state, light_order>>
    /\ guards' = [guards EXCEPT !["global_resources"] = "none"]
    /\ UNCHANGED <<recall, statistics>>
    /\ UNCHANGED <<acq_vars, out_vars>>

\* the pipeline manager finishes the recompilation started at render.rs:196
RecompileFinish ==
    /\ recompile = "running"
    /\ recompile' = "done"
    /\ UNCHANGED <<producer, consumer, r_pc, mode, passes, pools, options, new_options,
                   opt_local, encoder, object_count, light_queue, cull_data,
                   command_buffer_futures, command_buffers, submitted, r_frame,
                   enq_log, applied, batch, start_state, light_order, trace>>
    /\ UNCHANGED <<guards, recall, statistics>>
    /\ UNCHANGED <<acq_vars, out_vars>>

\* render.rs:277  directional_light_manager.values(): the lights present, by handle
RECURSIVE LightIteration(_, _)
LightIteration(lights, hs) ==
    IF hs = {} THEN <<>>
    ELSE LET h == CHOOSE x \in hs : \A y \in hs : x <= y IN
         (IF lights[h] # NoLight THEN <<h>> ELSE <<>>)
            \o LightIteration(lights, hs \ {h})

\* render.rs:267-275  the recompilation is awaited; read guards; the ordered queue
AwaitRecompile ==
    /\ r_pc = "recompile"
    /\ recompile # "running"
    /\ LET ls == LightIteration(pools.light, LightHandles) IN
         /\ light_queue' = ls
         /\ light_order' = ls
         /\ r_pc' = IF ls = <<>> THEN "acquire" ELSE "light_cull"
    /\ recompile' = "none"
    /\ command_buffer_futures' = <<>>
    /\ trace' = trace \o (IF recompile # "none"
                            THEN <<Ev("recompile_await", 0, 0)>> ELSE <<>>)
                      \o <<Ev("lock_read", 0, 0)>>
    /\ UNCHANGED <<producer, consumer, mode, passes, pools, options, new_options,
                   opt_local, encoder, object_count, cull_data, command_buffers,
                   submitted, r_frame, enq_log, applied, batch, start_state>>
    /\ guards' = [l \in Locks |-> IF l \in ReadLocked THEN "read" ELSE guards[l]]
    /\ UNCHANGED <<recall, statistics>>
    /\ UNCHANGED <<acq_vars, out_vars>>

\* variant of CullView that prepares the cull output but never runs the culling
CullView_NoCull(enc, v) ==
    <<enc, <<Ev("prepare", v, 0), Ev("uniform_upload", v, opt_local.ambient)>>>>

\* render.rs:278-321 / 367-410  prepare, uniform upload and culling of one view:
\* <<encoder', events>>
CullView(enc, v) ==
    IF mode = "CPUPowered"
      THEN <<enc, <<Ev("prepare", v, 0), Ev("uniform_upload", v, opt_local.ambient),
                    Ev("cpu_run", v, 0)>>>>
      ELSE <<Append(enc, Ev("gpu_run", v, 0)),
             <<Ev("prepare", v, 0), Ev("uniform_upload", v, opt_local.ambient),
               Ev("gpu_run", v, 0)>>>>

\* variant of SpawnTasks without the run-rate test: one task for every pass
SpawnTasks_AllPasses(ps, k, v, rate) ==
    [j \in 1..Len(ps) |-> [view |-> v, pass |-> j, done |-> FALSE]]

\* render.rs:336-354 / 425-441  the inner loop over render_list.passes for view v:
\* one recording task per pass whose run rate is `rate`, in list order
RECURSIVE SpawnTasks(_, _, _, _)
SpawnTasks(ps, k, v, rate) ==
    IF k > Len(ps) THEN <<>>
    ELSE (IF ps[k] # rate THEN <<>> ELSE <<[view |-> v, pass |-> k, done |-> FALSE]>>)
            \o SpawnTasks(ps, k + 1, v, rate)

SpawnEvents(ts) == [k \in 1..Len(ts) |-> Ev("spawn", ts[k].view, ts[k].pass)]

\* render.rs:278-321  one light: culling prepared and run (CPU) or encoded (GPU)
LightCull ==
    /\ r_pc = "light_cull"
    /\ LET l == Head(light_queue)
           c == CullView(encoder, l)
       IN /\ encoder' = c[1]
          /\ trace' = trace \o c[2]
          /\ cull_data' = l
    /\ r_pc' = "light_spawn"
    /\ UNCHANGED <<producer, consumer, mode, passes, pools, options, new_options,
                   opt_local, object_count, recompile, light_queue,
                   command_buffer_futures, command_buffers, submitted, r_frame,
                   enq_log, applied, batch, start_state, light_order>>
    /\ UNCHANGED <<guards, recall, statistics>>
    /\ UNCHANGED <<acq_vars, out_vars>>

\* render.rs:307-354  cpu_run has resolved; binding data; the PerShadow tasks
LightSpawn ==
    /\ r_pc = "light_spawn"
    /\ LET l == Head(light_queue)
           ts == SpawnTasks(passes, 1, l, "PerShadow")
       IN /\ command_buffer_futures' = command_buffer_futures \o ts
          /\ trace' = trace \o <<Ev("cull_done", l, 0)>> \o SpawnEvents(ts)
    /\ light_queue' = Tail(light_queue)
    /\ r_pc' = IF Tail(light_queue) = <<>> THEN "acquire" ELSE "light_cull"
    /\ UNCHANGED <<producer, consumer, mode, passes, pools, options, new_options,
                   opt_local, encoder, object_count, recompile, cull_data,
                   command_buffers, submitted, r_frame, enq_log, applied, batch,
                   start_state, light_order>>
    /\ UNCHANGED <<guards, recall, statistics>>
    /\ UNCHANGED <<acq_vars, out_vars>>

\* variant of DropReadGuards without the drop(global_resources) of render.rs:360
DropReadGuards_KeepGlobal ==
    /\ r_pc = "acquire"
    /\ guards' = [guards EXCEPT !["directional_light_manager"] = "none"]
    /\ trace' = Append(trace, Ev("drop_read", 0, 0))
    /\ r_pc' = "lock_swapchain"
    /\ UNCHANGED <<producer, consumer, mode, passes, pools, options, new_options,
                   opt_local, encoder, object_count, recompile, light_queue, cull_data,
                   command_buffer_futures, command_buffers, submitted, r_frame, enq_log,
                   applied, batch, start_state, light_order>>
    /\ UNCHANGED <<recall, statistics>>
    /\ UNCHANGED <<acq_vars, out_vars>>

\* render.rs:357-360  the read guards of the light pool and of global_resources
\* are dropped
DropReadGuards ==
    /\ r_pc = "acquire"
    /\ guards' = [guards EXCEPT !["directional_light_manager"] = "none",
                                !["global_resources"] = "none"]
    /\ trace' = Append(trace, Ev("drop_read", 0, 0))
    /\ r_pc' = "lock_swapchain"
    /\ UNCHANGED <<producer, consumer, mode, passes, pools, options, new_options,
                   opt_local, encoder, object_count, recompile, light_queue, cull_data,
                   command_buffer_futures, command_buffers, submitted, r_frame, enq_log,
                   applied, batch, start_state, light_order>>
    /\ UNCHANGED <<recall, statistics>>
    /\ UNCHANGED <<acq_vars, out_vars>>

\* render.rs:362  renderer.global_resources.write(): exclusive access to
\* global_resources is taken for the acquisition
LockSwapchain ==
    /\ r_pc = "lock_swapchain"
    /\ guards' = [guards EXCEPT !["global_resources"] = "write"]
    /\ trace' = Append(trace, Ev("lock_write_global", 0, 0))
    /\ r_pc' = "acquiring"
    /\ UNCHANGED <<producer, consumer, mode, passes, pools, options, new_options,
                   opt_local, encoder, object_count, recompile, light_queue, cull_data,
                   command_buffer_futures, command_buffers, submitted, r_frame, enq_log,
                   applied, batch, start_state, light_order>>
    /\ UNCHANGED <<recall, statistics>>
    /\ UNCHANGED <<acq_vars, out_vars>>

\* render.rs:362  output.acquire(&mut ..swapchain); the temporary write guard is
\* dropped at the end of the statement
AcquireOutput ==
    /\ r_pc = "acquiring"
    /\ r_frame' = "acquired"
    /\ guards' = [guards EXCEPT !["global_resources"] = "none"]
    /\ trace' = Append(trace, Ev("acquire", 0, 0))
    /\ r_pc' = "relock"
    /\ UNCHANGED <<producer, consumer, mode, passes, pools, options, new_options,
                   opt_local, encoder, object_count, recompile, light_queue, cull_data,
                   command_buffer_futures, command_buffers, submitted, enq_log,
                   applied, batch, start_state, light_order>>
    /\ UNCHANGED <<recall, statistics>>
    /\ UNCHANGED <<acq_vars, out_vars>>

\* render.rs:364  shared access to global_resources is taken again
RelockGlobal ==
    /\ r_pc = "relock"
    /\ guards' = [guards EXCEPT !["global_resources"] = "read"]
    /\ trace' = Append(trace, Ev("lock_read_global", 0, 0))
    /\ r_pc' = "camera_cull"
    /\ UNCHANGED <<producer, consumer, mode, passes, pools, options, new_options,
                   opt_local, encoder, object_count, recompile, light_queue, cull_data,
                   command_buffer_futures, command_buffers, submitted, r_frame, enq_log,
                   applied, batch, start_state, light_order>>
    /\ UNCHANGED <<recall, statistics>>
    /\ UNCHANGED <<acq_vars, out_vars>>

\* render.rs:366-410  the camera view: culling prepared and run or encoded
CameraCull ==
    /\ r_pc = "camera_cull"
    /\ LET c == CullView(encoder, CameraView)
       IN /\ encoder' = c[1]
          /\ trace' = trace \o c[2]
          /\ cull_data' = CameraView
    /\ r_pc' = "camera_spawn"
    /\ UNCHANGED <<producer, consumer, mode, passes, pools, options, new_options,
                   opt_local, object_count, recompile, light_queue,
                   command_buffer_futures, command_buffers, submitted, r_frame,
                   enq_log, applied, batch, start_state, light_order>>
    /\ UNCHANGED <<guards, recall, statistics>>
    /\ UNCHANGED <<acq_vars, out_vars>>

\* render.rs:396-448  the Once tasks; guards dropped; the primary encoder is finished
CameraSpawn ==
    /\ r_pc = "camera_spawn"
    /\ LET ts == SpawnTasks(passes, 1, CameraView, "Once")
       IN /\ command_buffer_futures' = command_buffer_futures \o ts
          /\ trace' = trace \o <<Ev("cull_done", CameraView, 0)>> \o SpawnEvents(ts)
                            \o <<Ev("drop_read", 0, 0), Ev("encoder_finish", 0, 0)>>
    /\ command_buffers' = <<[kind |-> "primary", view |-> 0, pass |-> 0]>>
    /\ r_pc' = "collect"
    /\ UNCHANGED <<producer, consumer, mode, passes, pools, options, new_options,
                   opt_local, encoder, object_count, recompile, light_queue, cull_data,
                   submitted, r_frame, enq_log, applied, batch, start_state,
                   light_order>>
    /\ guards' = [guards EXCEPT !["object_manager"] = "none", !["global_resources"] = "none"]
    /\ UNCHANGED <<recall, statistics>>
    /\ UNCHANGED <<acq_vars, out_vars>>

\* a recording task spawned on the worker pool finishes its command buffer
TaskComplete ==
    /\ \E k \in 1..Len(command_buffer_futures) :
         /\ ~command_buffer_futures[k].done
         /\ command_buffer_futures' = [command_buffer_futures EXCEPT ![k].done = TRUE]
    /\ UNCHANGED <<producer, consumer, r_pc, mode, passes, pools, options, new_options,
                   opt_local, encoder, object_count, recompile, light_queue, cull_data,
                   command_buffers, submitted, r_frame, enq_log, applied, batch,
                   start_state, light_order, trace>>
    /\ UNCHANGED <<guards, recall, statistics>>
    /\ UNCHANGED <<acq_vars, out_vars>>

\* variant of NextReady that yields any finished task (an unordered join)
NextReady_Unordered(futs) == {k \in 1..Len(futs) : futs[k].done}

\* render.rs:275, 450  FuturesOrdered::next: the oldest task, once it has finished
NextReady(futs) == IF futs # <<>> /\ futs[1].done THEN {1} ELSE {}

\* render.rs:450-452  one buffer is taken from the stream and pushed
CollectBuffer ==
    /\ r_pc = "collect"
    /\ \E k \in NextReady(command_buffer_futures) :
         LET t == command_buffer_futures[k] IN
         /\ command_buffers' =
               Append(command_buffers, [kind |-> "pass", view |-> t.view, pass |-> t.pass])
         /\ command_buffer_futures' = RemoveAt(command_buffer_futures, k)
         /\ trace' = Append(trace, Ev("collect", t.view, t.pass))
    /\ UNCHANGED <<producer, consumer, r_pc, mode, passes, pools, options, new_options,
                   opt_local, encoder, object_count, recompile, light_queue, cull_data,
                   submitted, r_frame, enq_log, applied, batch, start_state,
                   light_order>>
    /\ UNCHANGED <<guards, recall, statistics>>
    /\ UNCHANGED <<acq_vars, out_vars>>

\* variant of SubmitBuffers that does not wait for the stream to be exhausted
SubmitBuffers_Early ==
    /\ r_pc = "collect"
    /\ submitted' = command_buffers
    /\ trace' = trace \o <<Ev("poll", 0, 0), Ev("submit", 0, 0)>>
    /\ r_pc' = "pump"
    /\ UNCHANGED <<producer, consumer, mode, passes, pools, options, new_options,
                   opt_local, encoder, object_count, recompile, light_queue, cull_data,
                   command_buffer_futures, command_buffers, r_frame, enq_log, applied,
                   batch, start_state, light_order>>
    /\ UNCHANGED <<guards, recall, statistics>>
    /\ UNCHANGED <<acq_vars, out_vars>>

\* render.rs:450-457  the stream is exhausted; device.poll(Wait); queue.submit
SubmitBuffers ==
    /\ r_pc = "collect"
    /\ command_buffer_futures = <<>>
    /\ submitted' = command_buffers
    /\ trace' = trace \o <<Ev("poll", 0, 0), Ev("submit", 0, 0)>>
    /\ r_pc' = "pump"
    /\ UNCHANGED <<producer, consumer, mode, passes, pools, options, new_options,
                   opt_local, encoder, object_count, recompile, light_queue, cull_data,
                   command_buffer_futures, command_buffers, r_frame, enq_log, applied,
                   batch, start_state, light_order>>
    /\ UNCHANGED <<guards, recall, statistics>>
    /\ UNCHANGED <<acq_vars, out_vars>>

\* render.rs:461-469  buffer_manager.pump(): the recall futures it returns are
\* spawned on the worker pool; the driver keeps no handle to them
PumpBuffers ==
    /\ r_pc = "pump"
    /\ \E spawned \in BOOLEAN : recall' = IF spawned THEN "running" ELSE recall
    /\ trace' = Append(trace, Ev("pump", 0, 0))
    /\ r_pc' = "present"
    /\ UNCHANGED <<producer, consumer, mode, passes, pools, options, new_options,
                   opt_local, encoder, object_count, recompile, light_queue, cull_data,
                   command_buffer_futures, command_buffers, submitted, enq_log,
                   applied, batch, start_state, light_order>>
    /\ UNCHANGED <<r_frame, guards, statistics>>
    /\ UNCHANGED <<acq_vars, out_vars>>

\* a buffer recall task finishes; its JoinHandle was dropped at render.rs:464-468,
\* so its outcome reaches nobody
RecallComplete ==
    /\ recall = "running"
    /\ \E outcome \in {"ok", "failed"} : recall' = "none"
    /\ UNCHANGED <<producer, consumer, r_pc, mode, passes, pools, options, new_options,
                   opt_local, encoder, object_count, recompile, light_queue, cull_data,
                   command_buffer_futures, command_buffers, submitted, r_frame,
                   guards, statistics, enq_log, applied, batch, start_state,
                   light_order, trace>>
    /\ UNCHANGED <<acq_vars, out_vars>>

\* variant of PresentFrame that leaves the frame alive (as mem::forget would)
PresentFrame_NoDrop ==
    /\ r_pc = "present"
    /\ r_pc' = "return"
    /\ UNCHANGED <<producer, consumer, mode, passes, pools, options, new_options,
                   opt_local, encoder, object_count, recompile, light_queue, cull_data,
                   command_buffer_futures, command_buffers, submitted, enq_log,
                   applied, batch, start_state, light_order>>
    /\ UNCHANGED <<r_frame, trace, guards, recall, statistics>>
    /\ UNCHANGED <<acq_vars, out_vars>>

\* render.rs:472  drop(frame): the output is handed to presentation
PresentFrame ==
    /\ r_pc = "present"
    /\ r_frame' = "presented"
    /\ trace' = Append(trace, Ev("present", 0, 0))
    /\ r_pc' = "return"
    /\ UNCHANGED <<producer, consumer, mode, passes, pools, options, new_options,
                   opt_local, encoder, object_count, recompile, light_queue, cull_data,
                   command_buffer_futures, command_buffers, submitted, enq_log,
                   applied, batch, start_state, light_order>>
    /\ UNCHANGED <<guards, recall, statistics>>
    /\ UNCHANGED <<acq_vars, out_vars>>

\* render.rs:476  the future resolves to RendererStatistics {}
ReturnStatistics ==
    /\ r_pc = "return"
    /\ statistics' = "RendererStatistics"
    /\ trace' = Append(trace, Ev("return", 0, 0))
    /\ r_pc' = "idle"
    /\ UNCHANGED <<producer, consumer, mode, passes, pools, options, new_options,
                   opt_local, encoder, object_count, recompile, light_queue, cull_data,
                   command_buffer_futures, command_buffers, submitted, enq_log,
                   applied, batch, start_state, light_order>>
    /\ UNCHANGED <<r_frame, guards, recall>>
    /\ UNCHANGED <<acq_vars, out_vars>>

(***************************************************************************)
(* Specification of the acquisition service and the output target.         *)
(***************************************************************************)
InitAcquireVars ==
    /\ surface_sender = <<>>
    /\ frame_reciever = <<>>
    /\ at_alive = TRUE
    /\ th_pc = "recv"
    /\ th_surface = "-"
    /\ th_i = 0
    /\ retrieved_texture = None
    /\ next_image = 0
    /\ n_native = 0
    /\ first_nt = None
    /\ after_nt = 0
    /\ th_req = 0
    /\ sent_log = <<>>
    /\ resp_for = <<>>
    /\ frame \in {Surface(s) : s \in Surfaces} \cup {View(ExternalView)}
    /\ of_pc = "idle"
    /\ acquire_ret = "none"
    /\ last_op = "new"
    /\ n_ops = 0
    /\ n_requests = 0
    /\ presented = <<>>
    /\ discarded = {}

RUN_RATES == {"Once", "PerShadow"}

\* every render list of at most n passes
PassLists(n) == UNION {[1..k -> RUN_RATES] : k \in 0..n}

InitRenderVars(modes, lists) ==
    /\ producer = <<>>
    /\ consumer = <<>>
    /\ r_pc = "idle"
    /\ mode \in modes
    /\ passes \in lists
    /\ pools = EmptyPools
    /\ options = InitialOptions
    /\ new_options = NoOptions
    /\ opt_local = InitialOptions
    /\ encoder = <<>>
    /\ object_count = 0
    /\ recompile = "none"
    /\ light_queue = <<>>
    /\ cull_data = CameraView
    /\ command_buffer_futures = <<>>
    /\ command_buffers = <<>>
    /\ submitted = <<>>
    /\ r_frame = "none"
    /\ guards = NoGuards
    /\ recall = "none"
    /\ statistics = "none"
    /\ enq_log = <<>>
    /\ applied = <<>>
    /\ batch = <<>>
    /\ start_state = [pools |-> EmptyPools, new_options |-> NoOptions]
    /\ light_order = <<>>
    /\ trace = <<>>

\* the acquisition service and one output target; the renderer stays idle
InitAcquire ==
    /\ InitAcquireVars
    /\ InitRenderVars({"GPUPowered"}, {<<>>})

NextAcquire ==
    \/ ThreadRecv
    \/ ThreadRecvDisconnected
    \/ ThreadAttempt
    \/ ThreadSend
    \/ DropAcquireThread
    \/ OutputFrame_acquire
    \/ OutputFrame_acquire_resume
    \/ OutputFrame_acquire_cancel
    \/ OutputFrame_present
    \/ OutputFrame_drop
    \/ OutputFrame_new

SpecAcquire == InitAcquire /\ [][NextAcquire]_vars

FrameSteps ==
    \/ render_loop_call
    \/ BeginFrame
    \/ DrainStep
    \/ ReadyResources
    \/ BuildBindGroups
    \/ UpdateOptions
    \/ RecompileFinish
    \/ AwaitRecompile
    \/ LightCull
    \/ LightSpawn
    \/ DropReadGuards
    \/ LockSwapchain
    \/ AcquireOutput
    \/ RelockGlobal
    \/ CameraCull
    \/ CameraSpawn
    \/ TaskComplete
    \/ CollectBuffer
    \/ SubmitBuffers
    \/ PumpBuffers
    \/ RecallComplete
    \/ PresentFrame
    \/ ReturnStatistics

\* the output target untouched by the renderer model
InitOutputIdle ==
    /\ InitAcquireVars
    /\ frame = View(ExternalView)

\* frames over every instruction kind, with a fixed render list
InitInstr ==
    /\ InitOutputIdle
    /\ InitRenderVars({"CPUPowered", "GPUPowered"}, {<<"PerShadow", "Once">>})

NextInstr == Enqueue(AllInstructions) \/ FrameSteps

SpecInstr == InitInstr /\ [][NextInstr]_vars

\* frames over every render list, with the instructions that decide the views
InitFrame ==
    /\ InitOutputIdle
    /\ InitRenderVars({"CPUPowered", "GPUPowered"}, PassLists(MaxPasses))

NextFrame == Enqueue(ViewInstructions) \/ FrameSteps

SpecFrame == InitFrame /\ [][NextFrame]_vars

(***************************************************************************)
(* Properties of the acquisition thread.                                   *)
(***************************************************************************)
\* the response thread_loop is about to send for the request it serves
PendingResponse == unwrap_or_timeout(retrieved_texture)

\* C2: for one request, once a native attempt returned a non-timeout result
\* no further native attempt is made, and the response is that first
\* non-timeout result.
C2_FirstNonTimeoutIsFinal ==
    first_nt # None =>
        /\ after_nt = 0
        /\ th_pc = "send" => PendingResponse = first_nt

\* C3: for one request the native call is made at most 10 times; timeouts
\* followed by a success respond with that success and end the attempts; ten
\* timeouts in a row respond with the timeout error.
C3_BoundedRetry ==
    /\ n_native <= AcquireAttempts
    /\ n_native = th_i
    /\ first_nt.kind = "Ok" =>
          /\ th_pc = "send"
          /\ after_nt = 0
          /\ PendingResponse = first_nt
    /\ (th_pc = "send" /\ first_nt = None) =>
          /\ n_native = AcquireAttempts
          /\ PendingResponse = Err("Timeout")
    /\ th_pc = "attempt" => th_i < AcquireAttempts

\* nine timeouts, then the tenth attempt succeeds
C3_Witness ==
    /\ th_pc = "send"
    /\ n_native = AcquireAttempts
    /\ first_nt.kind = "Ok"
    /\ PendingResponse.kind = "Ok"

(***************************************************************************)
(* Properties of the output target.                                        *)
(***************************************************************************)
\* a step that is an invocation of OutputFrame::acquire
IsAcquireCall == n_ops' = n_ops + 1 /\ last_op' = "acquire"
\* a step in which a suspended OutputFrame::acquire receives its response
IsAcquireResume == of_pc = "awaiting" /\ last_op' = "acquire_resume"

\* C7: acquire on a SurfaceAcquired or View target returns Ok, sends no
\* request and leaves the variant and the view returned by as_view unchanged.
C7_AcquireNoOp ==
    [][(IsAcquireCall /\ frame.tag \in {"SurfaceAcquired", "View"}) =>
          /\ acquire_ret' = "Ok"
          /\ of_pc' = "idle"
          /\ n_requests' = n_requests
          /\ surface_sender' = surface_sender
          /\ frame' = frame
          /\ as_view(frame') = as_view(frame)
          /\ as_view(frame') # NoView]_vars

\* acquire was called on an already acquired surface
C7_Witness ==
    /\ last_op = "acquire"
    /\ frame.tag = "SurfaceAcquired"
    /\ acquire_ret = "Ok"

\* C8: acquire on an unacquired Surface sends exactly one request; a
\* successful response makes the target SurfaceAcquired with the image and
\* its view; an error response is returned and the target stays Surface.
C8_AcquireFromSurface ==
    [][/\ (IsAcquireCall /\ frame.tag = "Surface") =>
            /\ n_requests' = n_requests + 1
            /\ surface_sender' = Append(surface_sender, frame.surface)
            /\ frame' = frame
       /\ IsAcquireResume =>
            LET r == Head(frame_reciever) IN
            /\ frame.tag = "Surface"
            /\ n_requests' = n_requests
            /\ surface_sender' = surface_sender
            /\ r.kind = "Ok" =>
                  /\ acquire_ret' = "Ok"
                  /\ frame' = SurfaceAcquired(create_view(r.img), r.img)
            /\ r.kind # "Ok" =>
                  /\ acquire_ret' = r.kind
                  /\ frame' = frame
                  /\ as_view(frame') = NoView]_vars

\* an acquisition error came back and the target is still the Surface
C8_Witness ==
    /\ last_op = "acquire_resume"
    /\ acquire_ret \in FatalErrors \cup {"Timeout"}
    /\ frame.tag = "Surface"

NoDuplicates(seq) == \A i, j \in 1..Len(seq) : seq[i] = seq[j] => i = j
Range(seq) == {seq[i] : i \in 1..Len(seq)}

\* C9: an image reaches the surface only through present on a SurfaceAcquired
\* target, at most once; present on Surface or View presents nothing; present
\* consumes the target; dropping a SurfaceAcquired target presents nothing.
C9_PresentOnce ==
    /\ [](/\ NoDuplicates(presented)
          /\ Range(presented) \subseteq 1..next_image
          /\ Range(presented) \cap discarded = {})
    /\ [][/\ presented' # presented =>
               /\ last_op' = "present"
               /\ frame.tag = "SurfaceAcquired"
               /\ presented' = Append(presented, frame.surface_tex)
          /\ (n_ops' = n_ops + 1 /\ last_op' = "present") =>
               /\ ~Live(frame')
               /\ frame.tag # "SurfaceAcquired" => presented' = presented
          /\ (n_ops' = n_ops + 1 /\ last_op' = "drop") =>
               /\ ~Live(frame')
               /\ presented' = presented]_vars

\* an acquired image was presented and the target is consumed
C9_Witness ==
    /\ last_op = "present"
    /\ Len(presented) = 1
    /\ frame = Moved

\* C10: as_view returns no view exactly for the unacquired Surface; for
\* SurfaceAcquired it is the view created at acquisition, for View the
\* external view.
C10_AsView ==
    Live(frame) =>
        /\ as_view(frame) = NoView <=> frame.tag = "Surface"
        /\ frame.tag = "SurfaceAcquired" =>
              /\ frame.surface_tex \in 1..next_image
              /\ as_view(frame) = create_view(frame.surface_tex)
        /\ frame.tag = "View" => as_view(frame) = ExternalView

\* an acquired target exposes the view of its image
C10_Witness ==
    /\ frame.tag = "SurfaceAcquired"
    /\ as_view(frame) = create_view(frame.surface_tex)

(***************************************************************************)
(* Properties of render_loop.                                              *)
(***************************************************************************)
PrimaryBuffer == [kind |-> "primary", view |-> 0, pass |-> 0]
PassBuffer(v, k) == [kind |-> "pass", view |-> v, pass |-> k]

\* the indices of the passes of a render list that have the given run rate
RateIndices(ps, rate) ==
    LET idx == [k \in 1..Len(ps) |-> k] IN SelectSeq(idx, LAMBDA k : ps[k] = rate)

\* primary buffer, then light-major / pass-minor PerShadow buffers, then the
\* camera's Once buffers
ExpectedSubmission(lights, ps) ==
    LET shadow == RateIndices(ps, "PerShadow")
        once == RateIndices(ps, "Once")
        n == Len(shadow)
    IN <<PrimaryBuffer>>
         \o [j \in 1..(Len(lights) * n) |->
                PassBuffer(lights[((j - 1) \div n) + 1], shadow[((j - 1) % n) + 1])]
         \o [j \in 1..Len(once) |-> PassBuffer(CameraView, once[j])]

\* C1: whatever the lights, the render list and the order in which recording
\* tasks finish, the list handed to queue.submit is the primary buffer, then
\* one buffer per (light, PerShadow pass) in light order and pass order, then
\* one buffer per Once pass for the camera in pass order.
C1_SubmissionOrder ==
    submitted # <<>> =>
        submitted = ExpectedSubmission(LightIteration(pools.light, LightHandles), passes)

\* passes P1(Once), P2(PerShadow), lights L1 and L2
C1_Witness ==
    /\ passes = <<"Once", "PerShadow">>
    /\ submitted = <<PrimaryBuffer, PassBuffer(1, 2), PassBuffer(2, 2),
                     PassBuffer(CameraView, 1)>>

\* steps of a frame that read what the instructions mutate
AfterDrainEvents ==
    {"texture_2d_ready", "texture_cube_ready", "material_ready", "object_ready",
     "light_ready", "bind_groups", "prepare", "cpu_run", "gpu_run"}

\* C4: within a frame every instruction of the drained batch is applied
\* before the first readiness call, culling prepare/run or bind group build,
\* and none is applied after one of those steps.
C4_ApplyBeforeReadiness ==
    \A j \in 1..Len(trace) :
        trace[j].e \in AfterDrainEvents =>
            /\ consumer = <<>>
            /\ \A n \in 1..Len(batch) :
                  \E k \in 1..(j - 1) : trace[k] = Ev("apply", batch[n], 0)
            /\ \A k \in j..Len(trace) : trace[k].e # "apply"

\* a batch of two was applied and the frame went on to culling
C4_Witness ==
    /\ Len(batch) = 2
    /\ \E j \in 1..Len(trace) : trace[j].e \in {"cpu_run", "gpu_run"}
    /\ \E j \in 1..Len(trace) : trace[j].e = "apply"

\* ids applied in the current frame, in order
FrameApplied ==
    LET a == SelectSeq(trace, LAMBDA ev : ev.e = "apply") IN [k \in 1..Len(a) |-> a[k].a]

\* C5 as stated: every enqueued instruction is applied once or still pending,
\* in enqueue order, and a frame applies only what its swap handed over.
C5_ExactlyOnce ==
    /\ Ids(enq_log) = applied \o Ids(consumer) \o Ids(producer)
    /\ FrameApplied \o Ids(consumer) = batch

\* what a failed assert discards: the instruction that failed and the rest of
\* its batch
Discarded == SubSeq(batch, Len(FrameApplied) + 1, Len(batch))

\* C5 amended: instructions are applied at most once and in enqueue order; a
\* frame applies only instructions of the batch its swap handed over; each
\* swap hands the pending batch over in exchange for an empty one; nothing is
\* lost, except that a drain ended by a zero-mip-level assert discards the
\* failing instruction and the rest of its batch.
C5_Amended ==
    /\ [](/\ r_pc # "panicked" =>
               /\ Ids(enq_log) = applied \o Ids(consumer) \o Ids(producer)
               /\ FrameApplied \o Ids(consumer) = batch
          /\ r_pc = "panicked" =>
               /\ Ids(enq_log) = applied \o Discarded \o Ids(producer)
               /\ Discarded # <<>>
               /\ Panics(enq_log[Discarded[1]].instr)
               /\ consumer = <<>>)
    /\ [][(r_pc = "idle" /\ r_pc' = "begin") =>
             /\ consumer = <<>>
             /\ consumer' = producer
             /\ producer' = <<>>
             /\ batch' = Ids(producer)]_vars

\* a first frame applied instruction 1; the second frame's batch failed
C5_Witness ==
    /\ r_pc = "panicked"
    /\ applied = <<1>>
    /\ batch = <<2>>

\* the instructions of the current batch
BatchInstrs == [k \in 1..Len(batch) |-> enq_log[batch[k]].instr]

\* the instructions of q applied to st strictly one at a time, in order
RECURSIVE ApplyAll(_, _, _)
ApplyAll(st, q, opts) ==
    IF q = <<>> THEN st
    ELSE ApplyAll(ApplyInstruction(st, Head(q), opts), Tail(q), opts)

\* the one field an instruction mutates
MutatedField(op) ==
    CASE op = "SetOptions" -> "new_options"
      [] op = "SetCameraData" -> "camera"
      [] op \in {"SetBackgroundTexture", "ClearBackgroundTexture"} -> "background"
      [] OTHER -> PoolOf(op)

PoolFields == {"mesh", "tex2d", "texcube", "material", "object", "light", "camera",
               "background"}

\* C6: after the drain the pool and global state is that of the batch applied
\* one instruction at a time in FIFO order, every instruction mutating one
\* field only, and the consumer batch is empty.
C6_DrainIsSequential ==
    /\ [](r_pc = "bind" =>
            /\ consumer = <<>>
            /\ [pools |-> pools, new_options |-> new_options]
                  = ApplyAll(start_state, BatchInstrs, opt_local))
    /\ [][applied' # applied =>
             LET i == enq_log[applied'[Len(applied')]].instr IN
             /\ Len(consumer') = Len(consumer) - 1
             /\ Len(applied') = Len(applied) + 1
             /\ \A f \in PoolFields \ {MutatedField(i.op)} : pools'[f] = pools[f]
             /\ MutatedField(i.op) # "new_options" => new_options' = new_options]_vars

\* a batch of two was drained and changed the pools
C6_Witness ==
    /\ r_pc = "bind"
    /\ Len(batch) = 2
    /\ pools # start_state.pools

\* positions of the events of one kind in the frame's trace
Positions(e) == {j \in 1..Len(trace) : trace[j].e = e}

ViewPositions(e, v) == {j \in 1..Len(trace) : trace[j].e = e /\ trace[j].a = v}

\* C12: a recording task of a view is spawned only after that view's cpu_run
\* has completed (CPU mode) or after that view's culling dispatch was encoded
\* into the primary encoder (GPU mode), and in the submission the primary
\* encoder's buffer comes first, before every task buffer.
C12_CullBeforeRecord ==
    LET spawn == Positions("spawn")
        views == {trace[j].a : j \in spawn}
        run == IF mode = "CPUPowered" THEN "cpu_run" ELSE "gpu_run"
        dispatched == {encoder[n].a : n \in {n \in 1..Len(encoder) : encoder[n].e = "gpu_run"}}
    IN
    /\ \A v \in views :
          LET first == CHOOSE j \in spawn :
                          trace[j].a = v /\ \A k \in spawn : trace[k].a = v => j <= k
          IN \E d \in ViewPositions("cull_done", v) :
                /\ d < first
                /\ \E k \in ViewPositions(run, v) :
                      /\ k < d
                      /\ \E i \in ViewPositions("prepare", v) : i < k
                /\ mode = "GPUPowered" => v \in dispatched
    /\ \A k \in 1..Len(command_buffer_futures) : command_buffer_futures[k].view \in views
    /\ submitted # <<>> =>
          /\ submitted[1] = PrimaryBuffer
          /\ \A k \in 2..Len(submitted) :
                /\ submitted[k].kind = "pass"
                /\ mode = "GPUPowered" => submitted[k].view \in dispatched

\* GPU mode: a light's PerShadow buffer and the camera's Once buffer were
\* submitted behind the primary buffer that holds both culling dispatches
C12_Witness ==
    /\ mode = "GPUPowered"
    /\ Len(submitted) = 3
    /\ submitted[2].view # CameraView
    /\ submitted[3].view = CameraView

\* CPU mode: a light's task is running, spawned after the light's cpu_run
C12_WitnessCPU ==
    /\ mode = "CPUPowered"
    /\ command_buffer_futures # <<>>
    /\ command_buffer_futures[1].view # CameraView

\* the SetOptions payloads of the batch that are followed, later in the batch,
\* by a SetCameraData
OptionsBeforeCamera ==
    {enq_log[batch[m]].instr.val : m \in
        {m \in 1..Len(batch) :
            /\ enq_log[batch[m]].instr.op = "SetOptions"
            /\ \E n \in (m + 1)..Len(batch) :
                  enq_log[batch[n]].instr.op = "SetCameraData"}}

ZeroMipTexture(i) == i.op \in {"AddTexture2D", "AddTextureCube"} /\ i.val = 0

\* C14: an AddTexture2D/AddTextureCube with mip level count 0 ends the frame
\* by a panic at that instruction: it is never applied and its texture is not
\* in the pool, the instructions before it in the batch were applied and none
\* after it is, nothing is submitted or presented, and render_loop returns no
\* value.
C14_ZeroMipIsFatal ==
    /\ \A id \in Range(applied) : ~ZeroMipTexture(enq_log[id].instr)
    /\ (\E n \in 1..Len(batch) : ZeroMipTexture(enq_log[batch[n]].instr)) =>
          r_pc \in {"begin", "drain", "panicked"}
    /\ r_pc = "panicked" =>
          /\ Cardinality(Positions("panic")) = 1
          /\ trace[Len(trace)].e = "panic"
          /\ LET id == trace[Len(trace)].a
                 i == enq_log[id].instr
             IN /\ ZeroMipTexture(i)
                /\ pools[PoolOf(i.op)][i.handle] = Absent
                /\ \A n \in 1..Len(batch) :
                      batch[n] \in Range(applied) <=> batch[n] < id
          /\ submitted = <<>>
          /\ command_buffers = <<>>
          /\ Positions("submit") = {}
          /\ r_frame = "none"
          /\ Positions("present") = {}
          /\ statistics = "none"
          /\ Positions("return") = {}

\* the first instruction of a batch of two had no mip level: the second one
\* was not applied
C14_Witness ==
    /\ r_pc = "panicked"
    /\ Len(batch) = 2
    /\ trace[Len(trace)] = Ev("panic", batch[1], 0)
    /\ applied = <<>>

\* steps of a frame that cull a view or upload its uniform
CullEvents == {"prepare", "uniform_upload", "cpu_run", "gpu_run"}

\* C15: renderer.options does not change during the drain, the readiness
\* calls and the bind group build; staged options replace it once per frame,
\* after every instruction of the batch was applied and the pool write guards
\* were dropped, and before any culling or per-view uniform upload.
C15_OptionsStaged ==
    /\ [](/\ r_pc \in {"drain", "bind", "options"} => opt_local = options
          /\ Cardinality(Positions("update_options")) <= 1
          /\ \A u \in Positions("update_options") :
                /\ \A j \in Positions("apply") : j < u
                /\ \E d \in Positions("drop_write") : d < u
                /\ \A j \in 1..Len(trace) : trace[j].e \in CullEvents => u < j
          /\ \A j \in 1..Len(trace) :
                trace[j].e \in CullEvents /\ new_options # NoOptions =>
                    /\ Cardinality(Positions("update_options")) = 1
                    /\ options = new_options)
    /\ [][options' # options =>
             /\ r_pc = "options"
             /\ consumer = <<>>
             /\ new_options # NoOptions
             /\ options' = new_options
             /\ \A l \in PoolLocks : guards[l] = "none"]_vars

\* the frame installed options that differ from those it started with
C15_Witness ==
    /\ Positions("update_options") # {}
    /\ Positions("uniform_upload") # {}
    /\ options # InitialOptions

\* the lights in the pool when the views are visited
Lights == {h \in LightHandles : pools.light[h] # NoLight}

\* the passes of the render list with the given run rate
PassesOf(rate) == {k \in 1..Len(passes) : passes[k] = rate}

\* the (view, pass) pairs a frame has to record
ExpectedTasks == (Lights \X PassesOf("PerShadow")) \cup ({CameraView} \X PassesOf("Once"))

\* C16: a frame spawns one recording task for each (light, PerShadow pass)
\* pair and one for each Once pass against the camera, and no other; it
\* submits |lights| x |PerShadow| + |Once| task buffers; without lights no
\* PerShadow pass is recorded; the tasks of a view use the one cull output and
\* uniform prepared for that view.
C16_OneTaskPerPair ==
    LET spawn == Positions("spawn")
        spawned == {<<trace[j].a, trace[j].b>> : j \in spawn}
        expected == ExpectedTasks
    IN
    /\ Cardinality(spawned) = Cardinality(spawn)
    /\ spawned \subseteq expected
    /\ \A v \in {t[1] : t \in spawned} :
          /\ Cardinality(ViewPositions("prepare", v)) = 1
          /\ Cardinality(ViewPositions("uniform_upload", v)) = 1
    /\ Positions("encoder_finish") # {} => spawned = expected
    /\ submitted # <<>> =>
          /\ Len(submitted) - 1 =
                Cardinality(Lights) * Cardinality(PassesOf("PerShadow"))
                    + Cardinality(PassesOf("Once"))
          /\ Lights = {} => \A k \in 2..Len(submitted) : passes[submitted[k].pass] = "Once"

\* two lights and two PerShadow passes: four task buffers behind the primary one
C16_Witness ==
    /\ Cardinality(Lights) = 2
    /\ passes = <<"PerShadow", "PerShadow">>
    /\ Len(submitted) = 5

\* no light: the PerShadow pass of the render list was not recorded
C16_WitnessNoLight ==
    /\ Lights = {}
    /\ passes = <<"PerShadow", "Once">>
    /\ Len(submitted) = 2

\* a recording task of the frame was spawned and the frame's tasks have not
\* all been spawned and completed yet
InFanOut ==
    /\ Positions("spawn") # {}
    /\ \/ Positions("encoder_finish") = {}
       \/ \E k \in 1..Len(command_buffer_futures) : ~command_buffer_futures[k].done

\* exclusive access during application and readiness, all of it released
\* before the first spawn
ExclusiveThenReleased ==
    /\ r_pc \in {"drain", "bind"} =>
          \A l \in PoolLocks \cup {"global_resources"} : guards[l] = "write"
    /\ LET spawn == Positions("spawn") IN
          IF spawn = {}
            THEN r_pc \in {"recompile", "light_cull", "light_spawn"} =>
                    \A l \in Locks : guards[l] # "write"
            ELSE LET first == CHOOSE j \in spawn : \A k \in spawn : j <= k IN
                 /\ \E d \in Positions("drop_write") : d < first
                 /\ \E d \in Positions("drop_global") : d < first

\* C17 as stated: the driver holds the pools and global_resources exclusively
\* during instruction application and readiness, releases them before the
\* first recording task is spawned, and between the first spawn and the
\* completion of the last task nobody holds or requests exclusive access to a
\* pool or to global_resources.
C17_SingleWriter ==
    /\ ExclusiveThenReleased
    /\ InFanOut => \A l \in Locks : guards[l] # "write"

\* C17 amended: as stated for the pools; global_resources is taken exclusively
\* once more, by the driver, for the acquisition of the output only.
C17_Amended ==
    /\ ExclusiveThenReleased
    /\ InFanOut =>
          /\ \A l \in PoolLocks : guards[l] # "write"
          /\ guards["global_resources"] = "write" => r_pc = "acquiring"
          /\ guards["options"] = "none"

\* the driver holds global_resources exclusively while a light's recording
\* task is still running
C17_Witness ==
    /\ r_pc = "acquiring"
    /\ guards["global_resources"] = "write"
    /\ \E k \in 1..Len(command_buffer_futures) : ~command_buffer_futures[k].done

\* C18: a recompilation is started only in GPU mode and only after the
\* readiness of both texture pools; it has been awaited before the frame's
\* first recording task is spawned; in CPU mode none is started or awaited.
C18_RecompileGated ==
    LET start == Positions("recompile_start")
        await == Positions("recompile_await")
        spawn == Positions("spawn")
    IN
    /\ mode = "CPUPowered" => recompile = "none" /\ start = {} /\ await = {}
    /\ Cardinality(start) <= 1
    /\ \A q \in start :
          /\ mode = "GPUPowered"
          /\ \E t \in Positions("texture_2d_ready") : t < q
          /\ \E t \in Positions("texture_cube_ready") : t < q
    /\ recompile # "none" =>
          /\ r_pc \in {"bind", "options", "recompile"}
          /\ start # {}
          /\ spawn = {}
    /\ \A a \in await : \E q \in start : q < a
    /\ spawn # {} =>
          /\ recompile = "none"
          /\ mode = "GPUPowered" => \E a \in await : \A j \in spawn : a < j

\* GPU mode: a recording task exists, spawned after the recompilation was
\* started and awaited
C18_Witness ==
    /\ mode = "GPUPowered"
    /\ Positions("recompile_await") # {}
    /\ command_buffer_futures # <<>>

\* CPU mode: a recording task exists and no recompilation was started
C18_WitnessCPU ==
    /\ mode = "CPUPowered"
    /\ command_buffer_futures # <<>>
    /\ Positions("recompile_start") = {}

\* steps that must be over when the output is acquired
BeforeAcquireEvents ==
    {"texture_2d_ready", "texture_cube_ready", "material_ready", "object_ready",
     "light_ready", "bind_groups"}

\* C19: a frame requests the output image once, after the batch was applied,
\* the pools were made ready, the options were settled and every light was
\* culled and its tasks spawned; the driver holds no guard on global_resources
\* when it asks for the write guard, and holds the read guard again when the
\* camera view is culled and its tasks are spawned.
C19_AcquireLate ==
    LET acquire == Positions("acquire") IN
    /\ Cardinality(acquire) <= 1
    /\ statistics = "RendererStatistics" => Cardinality(acquire) = 1
    /\ r_pc = "relock" =>
          /\ trace[Len(trace)].e = "acquire"
          /\ consumer = <<>>
          /\ \A n \in 1..Len(batch) : batch[n] \in Range(FrameApplied)
          /\ \A e \in BeforeAcquireEvents : Positions(e) # {}
          /\ Positions("update_options") \cup Positions("read_options") # {}
          /\ \A l \in Lights :
                /\ ViewPositions("cull_done", l) # {}
                /\ \A p \in PassesOf("PerShadow") :
                      \E j \in ViewPositions("spawn", l) : trace[j].b = p
          /\ \A e \in CullEvents \cup {"cull_done", "spawn"} :
                ViewPositions(e, CameraView) = {}
    /\ \A q \in acquire :
          \A j \in (q + 1)..Len(trace) :
              /\ trace[j].e # "apply"
              /\ trace[j].e \notin BeforeAcquireEvents \cup {"update_options", "read_options"}
              /\ trace[j].e \in CullEvents \cup {"cull_done", "spawn"} =>
                    /\ trace[j].a = CameraView
                    /\ q + 1 < j /\ trace[q + 1].e = "lock_read_global"
    /\ r_pc = "lock_swapchain" => guards["global_resources"] = "none"
    /\ r_pc = "acquiring" =>
          /\ guards["global_resources"] = "write"
          /\ r_frame = "none"
    /\ r_pc \in {"camera_cull", "camera_spawn"} =>
          /\ guards["global_resources"] = "read"
          /\ r_frame = "acquired"

\* the output was acquired after two lights were culled and their tasks
\* spawned; the camera view comes next
C19_Witness ==
    /\ r_pc = "camera_cull"
    /\ r_frame = "acquired"
    /\ Cardinality(Lights) = 2
    /\ Len(command_buffer_futures) >= 2

\* C20: a frame calls queue.submit once, with the complete list, after the
\* buffer of every recording task was collected and right after
\* device.poll(Wait); buffer recall tasks are spawned only after the submit;
\* the frame goes on to present and return whether or not they have finished,
\* and their completion changes nothing of the frame.
C20_SubmitOnce ==
    /\ [](/\ Cardinality(Positions("submit")) <= 1
          /\ statistics = "RendererStatistics" => Cardinality(Positions("submit")) = 1
          /\ \A q \in Positions("submit") :
                /\ q > 1 /\ trace[q - 1].e = "poll"
                /\ \E f \in Positions("encoder_finish") : f < q
                /\ \A j \in Positions("spawn") :
                      \E c \in (j + 1)..(q - 1) :
                          trace[c] = Ev("collect", trace[j].a, trace[j].b)
                /\ \A j \in Positions("spawn") :
                      PassBuffer(trace[j].a, trace[j].b) \in Range(submitted)
                /\ \A j \in Positions("pump") : q < j
          /\ submitted # <<>> =>
                /\ submitted = command_buffers
                /\ command_buffer_futures = <<>>
          /\ recall = "running" =>
                /\ Positions("submit") # {}
                /\ Positions("pump") # {}
          /\ r_pc = "present" => ENABLED PresentFrame
          /\ r_pc = "return" => ENABLED ReturnStatistics)
    /\ [][recall = "running" /\ recall' # "running" /\ trace' = trace =>
             UNCHANGED <<r_pc, statistics, r_frame, submitted, command_buffers>>]_vars

\* the frame returned while the recall tasks it spawned were still running
C20_Witness ==
    /\ statistics = "RendererStatistics"
    /\ recall = "running"
    /\ Len(submitted) >= 3

(***************************************************************************)
(* The acquisition thread under fair scheduling: the operating system      *)
(* keeps running thread_loop (acquire.rs:20) and every native call         *)
(* returns, so each enabled step of the thread is eventually taken.  The   *)
(* callers are under no obligation.                                        *)
(***************************************************************************)
ThreadFairness ==
    /\ WF_vars(ThreadRecv)
    /\ WF_vars(ThreadRecvDisconnected)
    /\ WF_vars(ThreadAttempt)
    /\ WF_vars(ThreadSend)

SpecAcquireFair == InitAcquire /\ [][NextAcquire]_vars /\ ThreadFairness

\* requests for which thread_loop has completed its iteration
Served == IF th_pc \in {"attempt", "send"} THEN th_req - 1 ELSE th_req

\* a send that found the response channel closed is the last step of the thread
UndeliveredIsLast ==
    \A k \in 1..Len(sent_log) :
        ~sent_log[k].delivered =>
            k = Len(sent_log) /\ th_pc = "terminated" /\ ~at_alive

\* a step in which thread_loop terminates
ThreadExits == th_pc # "terminated" /\ th_pc' = "terminated"

\* C21: thread_loop receives the requests in the order they were sent and
\* makes exactly one send for every request it received, in request order;
\* a send is undelivered only when the response channel is closed, and the
\* thread then stops.  It terminates only on a closed and empty request
\* channel or on an undeliverable response, never while the AcquireThread is
\* alive, and once the AcquireThread is dropped it eventually terminates.
C21_ThreadLifecycle ==
    /\ [](/\ th_req = n_requests - Len(surface_sender)
          /\ Len(sent_log) = Served
          /\ \A k \in 1..Len(sent_log) : sent_log[k].req = k
          /\ UndeliveredIsLast
          /\ th_pc = "terminated" => ~at_alive)
    /\ [][ThreadExits =>
            /\ ~at_alive
            /\ \/ th_pc = "recv" /\ surface_sender = <<>>
               \/ th_pc = "send"]_vars
    /\ (~at_alive ~> th_pc = "terminated")

\* two requests served, the first delivered, the second undeliverable after
\* the drop, and the thread stopped on it
C21_Witness ==
    /\ th_pc = "terminated"
    /\ Len(sent_log) = 2
    /\ sent_log[1].delivered
    /\ ~sent_log[2].delivered

\* the thread stopped on the closed request channel after serving a request
C21_WitnessClosed ==
    /\ th_pc = "terminated"
    /\ Len(sent_log) = 1
    /\ sent_log[1].delivered

\* the request sent by the acquire call that is suspended: requests are
\* numbered in the order they enter the request channel (acquire.rs:25)
RequestOfCall == n_requests

\* C22: the response an acquire call receives answers the request that very
\* call sent, and the response channel never holds more than one undelivered
\* response, also when an acquire future was dropped between its send and
\* its receive.
C22_ResponseMatchesRequest ==
    /\ [](Len(frame_reciever) <= 1)
    /\ [][IsAcquireResume => Head(resp_for) = RequestOfCall]_vars

\* the SetOptions payloads of the current batch, in FIFO order
BatchOptions ==
    LET b == BatchInstrs IN
    [k \in 1..Cardinality({j \in 1..Len(b) : b[j].op = "SetOptions"}) |->
        LET j == CHOOSE j \in 1..Len(b) :
                    /\ b[j].op = "SetOptions"
                    /\ Cardinality({m \in 1..j : b[m].op = "SetOptions"}) = k
        IN b[j].val]

\* C23: when the batch holds several SetOptions, the frame updates the options
\* once, to the payload of the last one in FIFO order: after the update the
\* options equal that payload, and no step of the frame sets the options to
\* anything else, so the earlier payloads are never applied.
C23_LastSetOptionsWins ==
    /\ [](LET o == BatchOptions
              upd == Positions("update_options")
          IN Len(o) >= 2 =>
               /\ Cardinality(upd) <= 1
               /\ Positions("drop_global") # {} =>
                     /\ Cardinality(upd) = 1
                     /\ options = o[Len(o)])
    /\ [][(Len(BatchOptions) >= 2 /\ options' # options) =>
             options' = BatchOptions[Len(BatchOptions)]]_vars

\* a finished frame whose batch held two different SetOptions; the options
\* are those of the second
C23_Witness ==
    /\ r_pc = "idle"
    /\ Len(BatchOptions) = 2
    /\ BatchOptions[1] # BatchOptions[2]
    /\ BatchOptions[1] # InitialOptions
    /\ options = BatchOptions[2]
    /\ Positions("update_options") # {}

====
